---- MODULE Spec2Model ----
(***************************************************************************)
(* TransformersSimilarityRanker                                            *)
(* (haystack/components/rankers/transformers_similarity.py).               *)
(*                                                                         *)
(* One ranker object, the documents its caller holds, and the result of    *)
(* the latest call.  Python values are encoded as follows:                 *)
(*   Optional[x]   None is <<>>, a value v is <<v>>                        *)
(*   scores        integers in thousandths (0.5 is 500); logits returned   *)
(*                 by the scoring model are whole numbers                  *)
(*   dict          a function whose DOMAIN is the set of keys              *)
(*   exceptions    the "outcome" field of the call's result                *)
(***************************************************************************)
EXTENDS Integers, Sequences, FiniteSets, TLC

VARIABLES
    ranker,     \* None before/without construction, else <<self>>: the component's fields
    documents,  \* the caller's list of Document objects (content, meta, score)
    loads,      \* how often from_pretrained has instantiated the model / the tokenizer
    out         \* what the latest call did: its arguments, outcome and return value

vars == <<ranker, documents, loads, out>>

\* ------------------------------------------------------------------ bounds
MaxDocs == 3
MaxLoads == 2

\* ------------------------------------------------------- Python basic values
None == <<>>
Some(v) == <<v>>

\* bool(x) of an Optional[int] / Optional[float]: None and 0 are falsy.
TruthyNum(o) == o # None /\ o[1] # 0

\* bool(x) of an Optional[bool]: None and False are falsy.
TruthyBool(o) == o # None /\ o[1] = TRUE

\* dict.get(key) with a default for a missing key
Get(d, key, default) == IF key \in DOMAIN d THEN d[key] ELSE default

\* bool(s) of a str: only the empty string is falsy.
TruthyStr(s) == s # ""

\* ------------------------------------------------- ComponentDevice, DeviceMap
\* A ComponentDevice is [type, spec]: one device ("single") or a device map
\* ("multiple"); spec is the Hugging Face form of the placement.
DefaultDevice == [type |-> "single", spec |-> "cpu"]

\* ComponentDevice.resolve_device(device): the device given, else the default one
ResolveDevice(device) == IF device = None THEN DefaultDevice ELSE device[1]

\* ComponentDevice.from_multiple(DeviceMap.from_hf(device_map))
FromMultiple(device_map) == [type |-> "multiple", spec |-> device_map]

\* ComponentDevice.to_hf(): the placement handed to from_pretrained as device_map
ToHf(device) == device.spec

\* ComponentDevice.to_dict()
DeviceToDict(device) ==
    IF device.type = "single"
    THEN [type |-> "single", device |-> device.spec]
    ELSE [type |-> "multiple", device_map |-> device.spec]

\* ComponentDevice.from_dict(dict)
DeviceFromDict(d) ==
    IF d.type = "single"
    THEN [type |-> "single", spec |-> d.device]
    ELSE [type |-> "multiple", spec |-> d.device_map]

\* ------------------------------------------------------------------ __init__
\* The keyword parameters __init__ accepts; any other keyword is a TypeError.
InitParams ==
    {"model", "device", "token", "top_k", "meta_fields_to_embed", "embedding_separator",
     "scale_score", "calibration_factor", "score_threshold", "model_kwargs"}

\* A token is absent, a boolean flag or a literal string.
TokNone == [t |-> "none", v |-> ""]
TokBool(b) == [t |-> "bool", v |-> IF b THEN "True" ELSE "False"]
TokStr(s) == [t |-> "str", v |-> s]

\* `model_kwargs or {}`: None and the empty dict both give a new empty dict
KwargsOrEmpty(mk) == IF mk = None \/ DOMAIN mk[1] = {} THEN <<>> ELSE mk[1]

\* `meta_fields_to_embed or []`
FieldsOrEmpty(mf) == IF mf = None THEN <<>> ELSE mf[1]

\* model_kwargs.get("device_map") is truthy
HasDeviceMap(model_kwargs) == TruthyStr(Get(model_kwargs, "device_map", ""))

\* `device` and `device_map` both given: lines 89-93 raise
DeviceConflict(model_kwargs, device) == HasDeviceMap(model_kwargs) /\ device # None

\* lines 95-99
ComponentDeviceOf(model_kwargs, device) ==
    IF HasDeviceMap(model_kwargs) /\ device = None
    THEN FromMultiple(model_kwargs["device_map"])
    ELSE ResolveDevice(device)

\* lines 102 and 196: scale_score without a calibration_factor
ScaleWithoutFactor(scale_score, calibration_factor) ==
    scale_score /\ calibration_factor = None

\* BadTopK rejecting only negative values
BadTopK_NegativeOnly(top_k) == top_k < 0

\* lines 107 and 193
BadTopK(top_k) == top_k <= 0

\* The fields __init__ assigns (lines 76-86, 99); kw holds the keywords passed.
SelfOf(kw) ==
    LET model_kwargs == KwargsOrEmpty(Get(kw, "model_kwargs", None)) IN
    [ model_name_or_path   |-> Get(kw, "model", "cross-encoder/ms-marco-MiniLM-L-6-v2"),
      model                |-> None,
      tokenizer            |-> None,
      top_k                |-> Get(kw, "top_k", 10),
      token                |-> Get(kw, "token", TokNone),
      meta_fields_to_embed |-> FieldsOrEmpty(Get(kw, "meta_fields_to_embed", None)),
      embedding_separator  |-> Get(kw, "embedding_separator", "\n"),
      scale_score          |-> Get(kw, "scale_score", TRUE),
      calibration_factor   |-> Get(kw, "calibration_factor", Some(1)),
      score_threshold      |-> Get(kw, "score_threshold", None),
      model_kwargs         |-> model_kwargs,
      device               |-> ComponentDeviceOf(model_kwargs, Get(kw, "device", None)) ]

\* TransformersSimilarityRanker(**kw): the exception raised, or the new object
InitResult(kw) ==
    LET self == SelfOf(kw) IN
    IF ~(DOMAIN kw \subseteq InitParams)
    THEN [outcome |-> "TypeError", obj |-> None]
    ELSE IF DeviceConflict(self.model_kwargs, Get(kw, "device", None))
    THEN [outcome |-> "ValueError", obj |-> None]
    ELSE IF ScaleWithoutFactor(self.scale_score, self.calibration_factor)
    THEN [outcome |-> "ValueError", obj |-> None]
    ELSE IF BadTopK(self.top_k)
    THEN [outcome |-> "ValueError", obj |-> None]
    ELSE [outcome |-> "ok", obj |-> Some(self)]

\* The caller constructs the ranker.
Construct(kw) ==
    /\ ranker = None
    /\ out.op = "start"
    /\ LET r == InitResult(kw) IN
       /\ ranker' = r.obj
       /\ out' = [op |-> "init", outcome |-> r.outcome, kw |-> kw]
    /\ UNCHANGED <<documents, loads>>

\* ------------------------------------------------------------------- warm_up
\* What the two from_pretrained calls of a warm_up() may do
LoadBehaviours == {"ok", "model_raises", "tokenizer_raises"}

\* d[key] = value on a dict
DictSet(d, key, value) ==
    [k \in DOMAIN d \cup {key} |-> IF k = key THEN value ELSE d[k]]

ModelHandle == Some("AutoModelForSequenceClassification")
TokenizerHandle == Some("AutoTokenizer")

\* AlreadyLoaded with the test of line 120 never true: every warm_up() loads
AlreadyLoaded_Never(self) == FALSE

\* line 120: `if self.model is None` is false
AlreadyLoaded(self) == self.model # None

\* warm_up(), lines 120-128.  load is what the two from_pretrained calls do:
\* "ok", or the model's / the tokenizer's from_pretrained raises.
WarmUpSelf(self, load) ==
    IF AlreadyLoaded(self)
    THEN self
    ELSE LET s1 == [self EXCEPT !.model_kwargs =
                        DictSet(self.model_kwargs, "device_map", ToHf(self.device))] IN
         IF load = "model_raises" THEN s1
         ELSE LET s2 == [s1 EXCEPT !.model = ModelHandle] IN
              IF load = "tokenizer_raises" THEN s2
              ELSE [s2 EXCEPT !.tokenizer = TokenizerHandle]

\* The from_pretrained calls warm_up() completes, per handle
WarmUpLoads(self, load) ==
    IF AlreadyLoaded(self) THEN [model |-> 0, tokenizer |-> 0]
    ELSE IF load = "model_raises" THEN [model |-> 0, tokenizer |-> 0]
    ELSE IF load = "tokenizer_raises" THEN [model |-> 1, tokenizer |-> 0]
    ELSE [model |-> 1, tokenizer |-> 1]

WarmUpOutcome(self, load) ==
    IF AlreadyLoaded(self) \/ load = "ok" THEN "ok" ELSE "LoadError"

WarmUp(load) ==
    /\ ranker # None
    /\ loads.model < MaxLoads
    /\ LET self == ranker[1]
           n == WarmUpLoads(self, load) IN
       /\ ranker' = Some(WarmUpSelf(self, load))
       /\ loads' = [model |-> loads.model + n.model,
                    tokenizer |-> loads.tokenizer + n.tokenizer]
       /\ out' = [op |-> "warm_up", outcome |-> WarmUpOutcome(self, load),
                  was_loaded |-> self.model # None]
    /\ UNCHANGED documents

\* ----------------------------------------------------------- to_dict, from_dict
\* A torch.dtype object and its canonical string form
DtypeObject == "<torch.dtype float16>"
DtypeString == "torch.float16"

\* serialize_hf_model_kwargs: dtype objects become their string form
SerializeKwargs(model_kwargs) ==
    [k \in DOMAIN model_kwargs |->
        IF model_kwargs[k] = DtypeObject THEN DtypeString ELSE model_kwargs[k]]

\* deserialize_hf_model_kwargs: "torch.<name>" strings become dtype objects
DeserializeKwargs(model_kwargs) ==
    [k \in DOMAIN model_kwargs |->
        IF model_kwargs[k] = DtypeString THEN DtypeObject ELSE model_kwargs[k]]

\* to_dict(): the dictionary returned (lines 134-149)
ToDictData(self) ==
    [ type |-> "haystack.components.rankers.transformers_similarity.TransformersSimilarityRanker",
      init_parameters |->
        [ device               |-> DeviceToDict(self.device),
          model                |-> self.model_name_or_path,
          token                |-> IF self.token.t = "str" THEN TokNone ELSE self.token,
          top_k                |-> self.top_k,
          meta_fields_to_embed |-> self.meta_fields_to_embed,
          embedding_separator  |-> self.embedding_separator,
          scale_score          |-> self.scale_score,
          calibration_factor   |-> self.calibration_factor,
          score_threshold      |-> self.score_threshold,
          model_kwargs         |-> SerializeKwargs(self.model_kwargs) ] ]

\* to_dict() hands self.model_kwargs itself to the dictionary (line 145) and
\* line 148 serializes that dict in place: the ranker's own model_kwargs change.
ToDictSelf(self) == [self EXCEPT !.model_kwargs = SerializeKwargs(self.model_kwargs)]

ToDict ==
    /\ ranker # None
    /\ ranker' = Some(ToDictSelf(ranker[1]))
    /\ out' = [op |-> "to_dict", outcome |-> "ok", data |-> ToDictData(ranker[1])]
    /\ UNCHANGED <<documents, loads>>

\* from_dict(data), lines 156-160: the keywords default_from_dict passes to __init__
FromDictKw(data) ==
    LET p == data.init_parameters IN
    [ device               |-> Some(DeviceFromDict(p.device)),
      model                |-> p.model,
      token                |-> p.token,
      top_k                |-> p.top_k,
      meta_fields_to_embed |-> Some(p.meta_fields_to_embed),
      embedding_separator  |-> p.embedding_separator,
      scale_score          |-> p.scale_score,
      calibration_factor   |-> p.calibration_factor,
      score_threshold      |-> p.score_threshold,
      model_kwargs         |-> Some(DeserializeKwargs(p.model_kwargs)) ]

FromDictResult(data) == InitResult(FromDictKw(data))

\* The caller imports the dictionary to_dict() just returned.  That dictionary
\* still holds the ranker's own model_kwargs, which line 158 deserializes in place.
FromDict ==
    /\ ranker # None
    /\ out.op = "to_dict"
    /\ LET r == FromDictResult(out.data) IN
       out' = [op |-> "from_dict", outcome |-> r.outcome, data |-> out.data, obj |-> r.obj]
    /\ ranker' = Some([ranker[1] EXCEPT !.model_kwargs = DeserializeKwargs(@)])
    /\ UNCHANGED <<documents, loads>>

\* ---------------------------------------------------------------- Documents
\* A Document is [content, meta, score]; content and score are Optional.
\* A meta value is a str, an int or a bool: [t, s, n] with the str in s and
\* the int (or the bool as 0/1) in n.
MetaStr(x) == [t |-> "str", s |-> x, n |-> 0]
MetaInt(i) == [t |-> "int", s |-> "", n |-> i]
MetaBool(b) == [t |-> "bool", s |-> "", n |-> IF b THEN 1 ELSE 0]

\* Document(content=..., meta=..., score=...)
Document(content, meta, score) == [content |-> content, meta |-> meta, score |-> score]

\* The scores the caller's documents may carry into a call: none, or 0.007
\* from an earlier stage
PriorScores == {None, Some(7)}

\* bool(v) of a meta value
Truthy(v) == IF v.t = "str" THEN v.s # "" ELSE v.n # 0

Digit(d) ==
    CASE d = 0 -> "0" [] d = 1 -> "1" [] d = 2 -> "2" [] d = 3 -> "3" [] d = 4 -> "4"
      [] d = 5 -> "5" [] d = 6 -> "6" [] d = 7 -> "7" [] d = 8 -> "8" [] d = 9 -> "9"

RECURSIVE NatStr(_)
NatStr(i) == IF i < 10 THEN Digit(i) ELSE NatStr(i \div 10) \o Digit(i % 10)

\* str(v) of a meta value
Str(v) ==
    CASE v.t = "str" -> v.s
      [] v.t = "int" -> IF v.n < 0 THEN "-" \o NatStr(-v.n) ELSE NatStr(v.n)
      [] v.t = "bool" -> IF v.n = 1 THEN "True" ELSE "False"

\* The caller builds a new list of Documents.
NewDocuments(docs) ==
    /\ ranker # None
    /\ documents' = docs
    /\ out' = [op |-> "documents", outcome |-> "ok"]
    /\ UNCHANGED <<ranker, loads>>

\* ---------------------------------------------------------------------- run
\* `override or default` on Optional numbers (lines 188, 190, 191)
OrNum(override, default) == IF TruthyNum(override) THEN override ELSE default

\* `override or default` on Optional bools (line 189)
OrBool(override, default) == IF TruthyBool(override) THEN override ELSE default

\* lines 188-191: the values run() works with; a holds the call's overrides
EffectiveParams(self, a) ==
    [ top_k              |-> OrNum(a.top_k, Some(self.top_k))[1],
      scale_score        |-> OrBool(a.scale_score, Some(self.scale_score))[1],
      calibration_factor |-> OrNum(a.calibration_factor, self.calibration_factor),
      score_threshold    |-> OrNum(a.score_threshold, self.score_threshold) ]

\* NotWarmedUp with the test of line 202 left out
NotWarmedUp_Unchecked(self) == FALSE

\* line 202
NotWarmedUp(self) == self.model = None

\* lines 209-211: str() of the meta values to embed, in the configured order
RECURSIVE MetaValuesToEmbed(_, _)
MetaValuesToEmbed(fields, meta) ==
    IF fields = <<>> THEN <<>>
    ELSE LET key == Head(fields)
             rest == MetaValuesToEmbed(Tail(fields), meta) IN
         IF key \in DOMAIN meta /\ Truthy(meta[key])
         THEN <<Str(meta[key])>> \o rest
         ELSE rest

\* separator.join(parts)
RECURSIVE Join(_, _)
Join(separator, parts) ==
    IF parts = <<>> THEN ""
    ELSE IF Len(parts) = 1 THEN parts[1]
    ELSE parts[1] \o separator \o Join(separator, Tail(parts))

\* `doc.content or ""`
ContentOrEmpty(content) == IF content = None THEN "" ELSE content[1]

\* line 212
TextToEmbed(self, doc) ==
    Join(self.embedding_separator,
         MetaValuesToEmbed(self.meta_fields_to_embed, doc.meta)
            \o <<ContentOrEmpty(doc.content)>>)

\* lines 207-213
QueryDocPairs(self, query, docs) ==
    [i \in 1..Len(docs) |-> <<query, TextToEmbed(self, docs[i])>>]

\* torch.sigmoid of a whole-number logit, in thousandths; float32 saturates
Sigmoid(x) ==
    CASE x <= -8 -> 0
      [] x = -7 -> 1    [] x = -6 -> 2    [] x = -5 -> 7    [] x = -4 -> 18
      [] x = -3 -> 47   [] x = -2 -> 119  [] x = -1 -> 269  [] x = 0 -> 500
      [] x = 1 -> 731   [] x = 2 -> 881   [] x = 3 -> 953   [] x = 4 -> 982
      [] x = 5 -> 993   [] x = 6 -> 998   [] x = 7 -> 999
      [] x >= 8 -> 1000

\* lines 221-224: the scores of the call, in thousandths, in input order
SimilarityScores(logits, p) ==
    [i \in 1..Len(logits) |->
        IF p.scale_score
        THEN Sigmoid(logits[i] * p.calibration_factor[1])
        ELSE logits[i] * 1000]

\* SortedIndices without descending=True
SortedIndices_Ascending(scores) ==
    {s \in [1..Len(scores) -> 1..Len(scores)] :
        /\ \A i, j \in 1..Len(scores) : i # j => s[i] # s[j]
        /\ \A i, j \in 1..Len(scores) : i < j => scores[s[i]] <= scores[s[j]]}

\* line 226, torch.sort(scores, descending=True): every order of the indices
\* in which the scores do not increase (equal scores may come in any order)
SortedIndices(scores) ==
    {s \in [1..Len(scores) -> 1..Len(scores)] :
        /\ \A i, j \in 1..Len(scores) : i # j => s[i] # s[j]
        /\ \A i, j \in 1..Len(scores) : i < j => scores[s[i]] >= scores[s[j]]}

\* WriteScores taking the score at the loop's position, not at the document's index
WriteScores_ByPosition(docs, scores, sorted_indices) ==
    [i \in 1..Len(docs) |->
        [docs[i] EXCEPT !.score =
            Some(scores[CHOOSE k \in 1..Len(sorted_indices) : sorted_indices[k] = i])]]

\* lines 231-233: the score written on every document the loop visits
WriteScores(docs, scores, sorted_indices) ==
    [i \in 1..Len(docs) |->
        IF \E k \in 1..Len(sorted_indices) : sorted_indices[k] = i
        THEN [docs[i] EXCEPT !.score = Some(scores[i])]
        ELSE docs[i]]

\* ThresholdFilter keeping only the scores strictly above the threshold
ThresholdFilter_Strict(ranked_docs, docs, score_threshold) ==
    IF score_threshold # None
    THEN SelectSeq(ranked_docs, LAMBDA i : docs[i].score[1] > score_threshold[1])
    ELSE ranked_docs

\* lines 236-237; ranked_docs holds the documents by their index in the input
ThresholdFilter(ranked_docs, docs, score_threshold) ==
    IF score_threshold # None
    THEN SelectSeq(ranked_docs, LAMBDA i : docs[i].score[1] >= score_threshold[1])
    ELSE ranked_docs

\* ranked_docs[:top_k] for top_k > 0
Truncate(ranked_docs, top_k) ==
    SubSeq(ranked_docs, 1, IF top_k < Len(ranked_docs) THEN top_k ELSE Len(ranked_docs))

\* lines 236-239
Returned(ranked_docs, docs, p) ==
    Truncate(ThresholdFilter(ranked_docs, docs, p.score_threshold), p.top_k)

\* What the scoring engine may do in a call: raise in the tokenizer or in the
\* model, or return logits
EngineFailures == {"no", "tokenizer", "model"}
Logits == {-1, 0, 1}

\* EngineCalls with the tokenizer and the model invoked once per pair
EngineCalls_PerPair(batch) == Len(batch)

\* lines 215-221: the tokenizer and the model are each invoked once, on the
\* whole batch, outside the loop over the documents
EngineCalls(batch) == 1

\* What a run() call that ends before the tokenizer is reached leaves in `out`
Ended(query, a, outcome) ==
    [ op |-> "run", outcome |-> outcome, query |-> query, args |-> a,
      batch |-> <<>>, tokenizer_calls |-> 0, model_calls |-> 0,
      logits |-> <<>>, result |-> <<>> ]

\* A raise that first clears the scores the documents carried
DocumentsOnRaise_Cleared(docs) ==
    [i \in 1..Len(docs) |-> [docs[i] EXCEPT !.score = None]]

\* The caller's documents when run() raises: every raise of lines 193-221
\* comes before the loop of lines 231-234, the only place a score is assigned
DocumentsOnRaise(docs) == docs

\* run(query, documents, **a), lines 185-239, on the list the caller has just
\* built.  What the scoring engine does is chosen where the call reaches it:
\* the tokenizer or the model raises, or the model returns one logit per pair.
Run(query, a) ==
    /\ ranker # None
    /\ out.op = "documents"
    /\ UNCHANGED <<ranker, loads>>
    /\ LET self == ranker[1]
           p == EffectiveParams(self, a)
           batch == QueryDocPairs(self, query, documents) IN
       IF Len(documents) = 0 THEN
            out' = Ended(query, a, "ok") /\ UNCHANGED documents
       ELSE IF BadTopK(p.top_k) THEN
            out' = Ended(query, a, "ValueError") /\ documents' = DocumentsOnRaise(documents)
       ELSE IF ScaleWithoutFactor(p.scale_score, p.calibration_factor) THEN
            out' = Ended(query, a, "ValueError") /\ documents' = DocumentsOnRaise(documents)
       ELSE IF NotWarmedUp(self) THEN
            out' = Ended(query, a, "ComponentError") /\ documents' = DocumentsOnRaise(documents)
       ELSE IF self.tokenizer = None THEN
            out' = Ended(query, a, "TypeError") /\ documents' = DocumentsOnRaise(documents)
       ELSE \E fails \in EngineFailures :
            IF fails = "tokenizer" THEN
                /\ out' = [Ended(query, a, "ScorerError") EXCEPT
                              !.batch = batch, !.tokenizer_calls = EngineCalls(batch)]
                /\ documents' = DocumentsOnRaise(documents)
            ELSE IF fails = "model" THEN
                /\ out' = [Ended(query, a, "ScorerError") EXCEPT
                              !.batch = batch, !.tokenizer_calls = EngineCalls(batch), !.model_calls = EngineCalls(batch)]
                /\ documents' = DocumentsOnRaise(documents)
            ELSE \E logits \in [1..Len(documents) -> Logits] :
                 \E sorted_indices \in SortedIndices(SimilarityScores(logits, p)) :
                    /\ documents' = WriteScores(documents, SimilarityScores(logits, p),
                                                sorted_indices)
                    /\ out' = [Ended(query, a, "ok") EXCEPT
                                  !.batch = batch, !.tokenizer_calls = EngineCalls(batch),
                                  !.model_calls = EngineCalls(batch), !.logits = logits,
                                  !.result = Returned(sorted_indices, documents', p)]

\* ------------------------------------------------------------ specifications
Init ==
    /\ ranker = None
    /\ documents = <<>>
    /\ loads = [model |-> 0, tokenizer |-> 0]
    /\ out = [op |-> "start", outcome |-> "ok"]

\* The steps of the caller, with its inputs drawn from the given sets
Step(Kws, DocLists, Queries, Overrides) ==
    \/ \E kw \in Kws : Construct(kw)
    \/ \E load \in LoadBehaviours : WarmUp(load)
    \/ ToDict
    \/ FromDict
    \/ \E docs \in DocLists : NewDocuments(docs)
    \/ \E query \in Queries, a \in Overrides : Run(query, a)

\* Ranking: the ranking parameters and their per-call overrides vary.
RankKws ==
    {[top_k |-> k, scale_score |-> s, calibration_factor |-> c, score_threshold |-> t] :
        k \in {-1, 0, 1, 2}, s \in BOOLEAN, c \in {None, Some(1)}, t \in {None, Some(500)}}

RankDocLists ==
    {[i \in 1..n |-> Document(Some("d"), <<>>, score)] : n \in 0..MaxDocs, score \in PriorScores}

RankOverrides ==
    [ top_k              : {None} \cup {Some(k) : k \in -1..2},
      scale_score        : {None, Some(FALSE), Some(TRUE)},
      calibration_factor : {None, Some(0), Some(2)},
      score_threshold    : {None, Some(0), Some(731)} ]

Next == Step(RankKws, RankDocLists, {"q"}, RankOverrides)

Spec == Init /\ [][Next]_vars

\* Configuration: device, model_kwargs and token vary; export and import.
NoOverrides ==
    [top_k |-> None, scale_score |-> None, calibration_factor |-> None,
     score_threshold |-> None]

ConfigKws ==
    {[device |-> d, model_kwargs |-> mk, token |-> tok, top_k |-> k,
      scale_score |-> sc[1], calibration_factor |-> sc[2]] :
        d \in {None, Some([type |-> "single", spec |-> "cuda:0"])},
        mk \in {None, Some(<<>>), Some([device_map |-> "cpu"]),
                Some([torch_dtype |-> DtypeObject]),
                Some([torch_dtype |-> DtypeString]),
                Some([device_map |-> "cpu", torch_dtype |-> DtypeObject])},
        tok \in {TokNone, TokBool(TRUE), TokStr("hf_secret")},
        k \in {0, 5},
        sc \in {<<TRUE, Some(1)>>, <<FALSE, None>>, <<TRUE, None>>}}

ConfigDocLists ==
    {[i \in 1..n |-> Document(Some("d"), <<>>, None)] : n \in 0..MaxDocs}

NextConfig ==
    Step(ConfigKws, ConfigDocLists, {"q"},
         {NoOverrides, [NoOverrides EXCEPT !.top_k = Some(1)]})

SpecConfig == Init /\ [][NextConfig]_vars

\* Pairs: the texts vary (meta fields to embed, separator, prefixes, contents
\* and meta of the documents, query).
PrefixKws ==
    {<<>>, [query_prefix |-> "query: ", document_prefix |-> "passage: "]}

PairsKws ==
    {[meta_fields_to_embed |-> mf, embedding_separator |-> sep] @@ prefixes :
        mf \in {None, Some(<<"a">>), Some(<<"b", "a">>)},
        sep \in {"\n", " | "},
        prefixes \in PrefixKws}

PairsDocs ==
    { Document(Some("x"), <<>>, None),
      Document(None, [a |-> MetaStr("m")], None),
      Document(Some(""), [a |-> MetaStr(""), b |-> MetaInt(7)], None),
      Document(Some("y"), [a |-> MetaInt(0), b |-> MetaBool(TRUE)], None) }

PairsDocLists == UNION {[1..n -> PairsDocs] : n \in 0..MaxDocs}

NextPairs == Step(PairsKws, PairsDocLists, {"", "q"}, {NoOverrides})

SpecPairs == Init /\ [][NextPairs]_vars

\* =================================================================== claims
\* The latest call is a run() on a non-empty list
RanOnDocuments == out.op = "run" /\ Len(documents) > 0

\* ... that returned normally
RanToTheEnd == RanOnDocuments /\ out.outcome = "ok"

\* The score written on the document at index i of the caller's list
ScoreOf(i) == documents[i].score[1]

\* The parameters of the latest run() call if every override that is not None
\* replaced the stored value
ParamsAsProvided ==
    LET self == ranker[1]
        a == out.args IN
    [ top_k              |-> IF a.top_k # None THEN a.top_k[1] ELSE self.top_k,
      scale_score        |-> IF a.scale_score # None THEN a.scale_score[1]
                             ELSE self.scale_score,
      calibration_factor |-> IF a.calibration_factor # None THEN a.calibration_factor
                             ELSE self.calibration_factor,
      score_threshold    |-> IF a.score_threshold # None THEN a.score_threshold
                             ELSE self.score_threshold ]

\* The parameters the latest run() call resolved
ParamsOfRun == EffectiveParams(ranker[1], out.args)

\* C1: every override of top_k, scale_score, calibration_factor or
\* score_threshold that is not None is the value the call uses, whatever its
\* value: a call that returns normally, and whose parameters as provided are
\* valid, writes the scores and returns the documents those parameters give.
C1_ProvidedOverridesAreUsed ==
    (/\ RanToTheEnd
     /\ ~BadTopK(ParamsAsProvided.top_k)
     /\ ~ScaleWithoutFactor(ParamsAsProvided.scale_score,
                            ParamsAsProvided.calibration_factor))
    => LET scores == SimilarityScores(out.logits, ParamsAsProvided) IN
       /\ \A i \in 1..Len(documents) : documents[i].score = Some(scores[i])
       /\ \E s \in SortedIndices(scores) :
            out.result = Returned(s, documents, ParamsAsProvided)

\* C2: a run() on a non-empty list with a top_k override <= 0 (0 included)
\* raises the configuration error and returns no documents; shown here for a
\* warmed-up ranker whose scoring engine does not fail.
C2_NonPositiveTopKOverrideRaises ==
    (/\ RanOnDocuments
     /\ ranker[1].model # None /\ ranker[1].tokenizer # None
     /\ out.outcome # "ScorerError"
     /\ out.args.top_k # None /\ out.args.top_k[1] <= 0)
    => /\ out.outcome = "ValueError"
       /\ out.result = <<>>
       /\ out.tokenizer_calls = 0

C6_LoadedOnce ==
    /\ [](ranker # None =>
            /\ loads.model = (IF ranker[1].model # None THEN 1 ELSE 0)
            /\ loads.tokenizer = (IF ranker[1].tokenizer # None THEN 1 ELSE 0))
    /\ [][(ranker # None /\ out'.op = "warm_up" /\ ranker[1].model # None)
            => (ranker' = ranker /\ loads' = loads /\ documents' = documents)]_vars
    /\ [][(ranker # None /\ out'.op = "run")
            => (/\ ranker'[1].model = ranker[1].model
                /\ ranker'[1].tokenizer = ranker[1].tokenizer
                /\ loads' = loads)]_vars

C6_Witness ==
    /\ out.op = "warm_up"
    /\ out.was_loaded
    /\ loads = [model |-> 1, tokenizer |-> 1]

\* C7: after a run() that returns normally on a non-empty list, every input
\* document, returned or not, carries the score the call computed for it
\* (the sigmoid of logit * calibration_factor when the call scales, the
\* logit otherwise).
C7_EveryDocumentScored ==
    RanToTheEnd =>
        \A i \in 1..Len(documents) :
            /\ documents[i].score # None
            /\ ScoreOf(i) = SimilarityScores(out.logits, ParamsOfRun)[i]

\* Of three documents one is returned, one is dropped by the threshold and
\* one is cut by top_k = 1: each has its score.
C7_Witness ==
    /\ RanToTheEnd
    /\ Len(documents) = 3
    /\ ParamsOfRun.top_k = 1
    /\ ParamsOfRun.score_threshold = Some(500)
    /\ out.result = <<2>>
    /\ documents[1].score = Some(269)
    /\ documents[2].score = Some(731)
    /\ documents[3].score = Some(500)

\* C8: the documents a run() returns are in non-increasing order of the score
\* written on them.
C8_ResultDescending ==
    RanToTheEnd =>
        \A k \in 1..(Len(out.result) - 1) :
            ScoreOf(out.result[k]) >= ScoreOf(out.result[k + 1])

\* Two documents returned in the reverse of their input order
C8_Witness ==
    /\ RanToTheEnd
    /\ out.result = <<2, 1>>
    /\ ScoreOf(2) > ScoreOf(1)

\* The documents whose score reaches the threshold the latest run() resolved
Passing ==
    {i \in 1..Len(documents) :
        ParamsOfRun.score_threshold = None
            \/ ScoreOf(i) >= ParamsOfRun.score_threshold[1]}

C3_DeviceMapWins ==
    (/\ out.op = "init"
     /\ DOMAIN out.kw \subseteq InitParams
     /\ Get(out.kw, "device", None) # None
     /\ HasDeviceMap(KwargsOrEmpty(Get(out.kw, "model_kwargs", None)))
     /\ ~BadTopK(Get(out.kw, "top_k", 10))
     /\ ~ScaleWithoutFactor(Get(out.kw, "scale_score", TRUE),
                            Get(out.kw, "calibration_factor", Some(1))))
    => /\ out.outcome = "ok"
       /\ ranker # None
       /\ ranker[1].device = FromMultiple(out.kw.model_kwargs[1].device_map)

\* C4: from_dict(to_dict(ranker)) does not raise, whatever calls the ranker
\* has seen, and the ranker it returns exports the same dictionary (in which
\* a literal string token is already absent).
C4_RoundTrip ==
    out.op = "from_dict" =>
        /\ out.outcome = "ok"
        /\ out.obj # None
        /\ ToDictData(out.obj[1]) = out.data

\* C10: the batch handed to the tokenizer holds, per input document and in
\* input order, [query_prefix + query, document_prefix + fused]; a ranker can
\* be given the two prefixes, and a ranker built without them has empty ones.
C10_PrefixedPairs ==
    /\ (/\ out.op = "init"
        /\ DOMAIN out.kw \subseteq InitParams \cup {"query_prefix", "document_prefix"}
        /\ ~BadTopK(Get(out.kw, "top_k", 10)))
       => out.outcome = "ok"
    /\ (out.op = "run" /\ out.tokenizer_calls = 1)
       => out.batch =
            [i \in 1..Len(documents) |->
                << Get(ranker[1], "query_prefix", "") \o out.query,
                   Get(ranker[1], "document_prefix", "")
                        \o TextToEmbed(ranker[1], documents[i]) >>]

\* C11: a run() on an empty list returns an empty result without invoking the
\* scoring engine, warmed up or not; a run() that returns normally on a
\* non-empty list invokes the tokenizer and the model exactly once each, on
\* one batch holding a pair per document; no run() invokes either more than once.
C11_OneEngineCall ==
    out.op = "run" =>
        /\ Len(documents) = 0 =>
            /\ out.outcome = "ok" /\ out.result = <<>>
            /\ out.tokenizer_calls = 0 /\ out.model_calls = 0
        /\ RanToTheEnd =>
            /\ out.tokenizer_calls = 1 /\ out.model_calls = 1
            /\ Len(out.batch) = Len(documents)
        /\ out.tokenizer_calls <= 1 /\ out.model_calls <= 1

\* Three documents scored and returned by one invocation of the model
C11_Witness ==
    /\ RanToTheEnd
    /\ Len(documents) = 3
    /\ Len(out.result) = 2
    /\ out.model_calls = 1

\* C12: documents that receive equal scores in one run() are returned in
\* their input order: of two returned documents with equal scores, the one
\* earlier in the input comes first.
C12_TiesKeepInputOrder ==
    RanToTheEnd =>
        \A k, l \in 1..Len(out.result) :
            (k < l /\ ScoreOf(out.result[k]) = ScoreOf(out.result[l]))
                => out.result[k] < out.result[l]

\* The ranking parameters a ranker stores
StoredParams(self) ==
    <<self.top_k, self.scale_score, self.calibration_factor, self.score_threshold>>

\* C13: construction raises the configuration error when top_k <= 0 or when
\* scale_score is true without a calibration_factor; a constructed ranker
\* stores the values it was given, and no warm_up(), to_dict(), from_dict() or
\* run() call, whatever its overrides and its outcome, changes the stored
\* top_k, scale_score, calibration_factor and score_threshold; so top_k > 0
\* and (scale_score => calibration_factor not None) in every state.
C13_StoredParametersKept ==
    /\ [](out.op = "init" =>
            LET top_k == Get(out.kw, "top_k", 10)
                scale_score == Get(out.kw, "scale_score", TRUE)
                calibration_factor == Get(out.kw, "calibration_factor", Some(1))
                score_threshold == Get(out.kw, "score_threshold", None) IN
            /\ (top_k <= 0 \/ (scale_score /\ calibration_factor = None))
                => (out.outcome = "ValueError" /\ ranker = None)
            /\ out.outcome = "ok" =>
                /\ ranker # None
                /\ StoredParams(ranker[1])
                     = <<top_k, scale_score, calibration_factor, score_threshold>>)
    /\ [][ranker # None =>
            (ranker' # None /\ StoredParams(ranker'[1]) = StoredParams(ranker[1]))]_vars
    /\ [](ranker # None =>
            /\ ranker[1].top_k > 0
            /\ ranker[1].scale_score => ranker[1].calibration_factor # None)

\* A run() returned normally with a top_k, a scale_score and a
\* calibration_factor override that all differ from the stored values.
C13_Witness ==
    /\ RanToTheEnd
    /\ out.args.top_k = Some(2) /\ ranker[1].top_k = 1
    /\ out.args.scale_score = Some(TRUE) /\ ranker[1].scale_score = FALSE
    /\ out.args.calibration_factor = Some(2) /\ ranker[1].calibration_factor = None
    /\ out.args.score_threshold = Some(731) /\ ranker[1].score_threshold = None

\* C14: a run() call that raises (ValueError, ComponentError, or an error
\* raised by the tokenizer or by the model) leaves the caller's list and every
\* document's score as they were before the call; a call that returns on a
\* non-empty list has written the computed score on every document: scores
\* are written for all input documents or for none.
C14_AllScoresOrNone ==
    [][out'.op = "run" =>
        IF out'.outcome # "ok" \/ Len(documents) = 0
        THEN documents' = documents
        ELSE /\ Len(documents') = Len(documents)
             /\ \A i \in 1..Len(documents) :
                  documents'[i].score
                    = Some(SimilarityScores(out'.logits,
                                            EffectiveParams(ranker[1], out'.args))[i])]_vars

\* The model raised after the tokenizer ran on two documents that carried a
\* prior score: both still carry it.
C14_Witness ==
    /\ out.op = "run" /\ out.outcome = "ScorerError" /\ out.model_calls = 1
    /\ Len(documents) = 2
    /\ documents[1].score = Some(7)
    /\ documents[2].score = Some(7)

====
